---- MODULE Spec2Model ----
(***************************************************************************)
(* Model of scripts/migrate_dujiaoka.py: the AuraLogicClient request loop, *)
(* the MigrationEngine's three stages and main().  One process, one thread *)
(* of control: pc is its position, every client call is a request that the *)
(* server answers attempt by attempt.                                      *)
(***************************************************************************)
EXTENDS Integers, Sequences, FiniteSets, TLC

\* ------------------------------------------------------------------------
\* Bounds of the model (sizes of the source data and of the fault budget).
MaxGoods == 2        \* rows returned by get_goods
MaxCarmis == 1       \* unsold carmis rows of one product; --batch-size is 1..MaxCarmis
MaxCoupons == 1      \* rows returned by get_coupons
MaxCouponGoods == 2  \* rows of coupons_goods of one coupon
MaxFaults == 1       \* reader calls that may raise in one run
MaxStock == 3        \* unsold carmis rows of the product in the stock scenarios

\* Program constants.
RetryCount == 3      \* AuraLogicConfig.retry_count
Sentinel == -1       \* identifier written in dry-run mode
NoId == 0            \* a missing, None or otherwise falsy identifier
UnknownGoods == 99   \* a goods id of coupons_goods that get_goods never returns

\* ------------------------------------------------------------------------
\* Python dict, insertion ordered: a sequence of <<key, value>> pairs.
DictHas(d, k) == \E j \in 1..Len(d) : d[j][1] = k

DictGet(d, k) == d[CHOOSE j \in 1..Len(d) : d[j][1] = k][2]

DictSet(d, k, v) ==
    IF DictHas(d, k)
    THEN [j \in 1..Len(d) |-> IF d[j][1] = k THEN <<k, v>> ELSE d[j]]
    ELSE Append(d, <<k, v>>)

DictKeys(d) == {d[j][1] : j \in 1..Len(d)}

\* Sequences over S of length at most n.
SeqUpTo(S, n) == UNION {[1..m -> S] : m \in 0..n}

\* Python s[i:i+n] for a 0-based offset i.
Slice(s, i, n) ==
    LET hi == IF i + n < Len(s) THEN i + n ELSE Len(s)
    IN  [j \in 1..(hi - i) |-> s[i + j]]

\* ------------------------------------------------------------------------
\* Source rows.
GoodsRow(g, b) == [id |-> g, bad |-> b]

\* get_goods results: ids in query order; bad marks a row on which
\* _build_product_payload raises (a missing or non-numeric field).
GoodsLists(n) ==
    UNION {{[j \in 1..m |-> GoodsRow(j, f[j])] : f \in [1..m -> BOOLEAN]} : m \in 0..n}

CarmiKinds == {"normal", "loop", "empty"}

\* One carmis row: content is a non-zero number, NoId stands for empty content.
CarmiRow(g, j, kind) ==
    [id |-> g * 10 + j,
     carmi |-> IF kind = "empty" THEN NoId ELSE g * 10 + j,
     is_loop |-> kind = "loop"]

CarmisLists(g, n) ==
    {[j \in 1..Len(ks) |-> CarmiRow(g, j, ks[j])] : ks \in SeqUpTo(CarmiKinds, n)}

\* coupons_goods rows of one coupon: ascending lists of distinct goods ids.
CouponGoodsLists(n, m) ==
    {gs \in SeqUpTo((1..n) \cup {UnknownGoods}, m) :
        \A a, b \in 1..Len(gs) : a < b => gs[a] < gs[b]}

CouponLists(n, g, k) ==
    UNION {[1..m -> [id : {0}, goods : CouponGoodsLists(g, k), bad : BOOLEAN]] : m \in 0..n}

\* Coupon ids follow query order (ORDER BY id ASC).
NumberCoupons(cs) == [j \in 1..Len(cs) |-> [cs[j] EXCEPT !.id = j]]

\* ------------------------------------------------------------------------
VARIABLES
    opts,              \* MigrationOptions
    scope,             \* sizes of the source data and kind of API double of the scenario
    db,                \* source rows read so far (the database does not change in a run)
    pc,                \* position of the process
    idx,               \* index of the unit being processed in the current stage
    goods_with_carmis, \* migrate_carmis: list of (gid, pid)
    local,             \* locals of _migrate_carmis_for_goods
    product_map,       \* engine.product_map
    vinv_map,          \* engine.vinv_map
    stats,             \* engine.stats
    payload,           \* migrate_coupons: the payload built last
    headers,           \* names of client.session.headers
    req,               \* the _request call in progress
    calls,             \* client operations invoked so far, with their outcome
    target,            \* calls the server answered 2xx
    faults,            \* reader calls that raised so far
    report,            \* what print_summary showed and wrote
    sim_stats          \* statistics of an earlier dry run on the same data

vars == <<opts, scope, db, pc, idx, goods_with_carmis, local, product_map, vinv_map,
          stats, payload, headers, req, calls, target, faults, report, sim_stats>>

ZeroStats ==
    [products_created |-> 0, products_skipped |-> 0, products_failed |-> 0,
     vinv_created |-> 0, carmis_imported |-> 0, bindings_created |-> 0,
     coupons_created |-> 0, coupons_failed |-> 0]

NoBody == [id |-> NoId, data_id |-> NoId, stock_id |-> NoId]

\* The _request call in progress: its locals while the for loop runs, then
\* what the caller gets (the body returned, or the exception with its cause).
\* failures counts the passes through the except branch, waits the sleeps made
\* in it, last_resp is the server's last answer.
IdleReq ==
    [status |-> "idle", op |-> "none", attempt |-> 0, saved |-> {},
     last_err |-> "none", failures |-> 0, waits |-> 0, last_resp |-> "none",
     body |-> NoBody, exc |-> "none"]

NoLocal ==
    [goods_id |-> 0, product_id |-> 0, vinv_id |-> NoId, normal_items |-> <<>>,
     loop_items |-> <<>>, i |-> 0, li |-> 0]

NoPayload == [cid |-> 0, product_scope |-> "none", has_product_ids |-> FALSE,
              product_ids |-> <<>>]

SessionHeaders == {"X-API-Key", "X-API-Secret", "Content-Type"}

Unread == [read |-> FALSE, rows |-> <<>>]

Rows(r) == [read |-> TRUE, rows |-> r]

OptionSets(maxBatch) ==
    [dry_run : BOOLEAN, migrate_products : BOOLEAN, migrate_carmis : BOOLEAN,
     migrate_coupons : BOOLEAN, batch_size : 1..maxBatch]

\* State after construction of reader, client and engine, before reader.connect().
Constructed(o, sc) ==
    /\ opts = o
    /\ scope = sc
    /\ db = [goods |-> Unread, carmis |-> [g \in 1..sc.goods |-> Unread], coupons |-> Unread]
    /\ pc = "connect"
    /\ idx = 0
    /\ goods_with_carmis = <<>>
    /\ local = NoLocal
    /\ product_map = <<>>
    /\ vinv_map = <<>>
    /\ stats = ZeroStats
    /\ payload = NoPayload
    /\ headers = SessionHeaders
    /\ req = IdleReq
    /\ calls = <<>>
    /\ target = {}
    /\ faults = 0
    /\ report = [shown |-> FALSE, stats |-> ZeroStats, product_map |-> <<>>, vinv_map |-> <<>>]
    /\ sim_stats = [known |-> FALSE, stats |-> ZeroStats]

Scope(g, c, k, kg, f, r) ==
    [goods |-> g, carmis |-> c, coupons |-> k, coupon_goods |-> kg, faults |-> f,
     reliable |-> r]

Init ==
    \E o \in OptionSets(MaxCarmis) :
        Constructed(o, Scope(MaxGoods, MaxCarmis, MaxCoupons, MaxCouponGoods, MaxFaults,
                             FALSE))

\* ------------------------------------------------------------------------
\* AuraLogicClient

\* Headers a call overrides with None: only import_virtual_stock does.
HeadersOverride(op) == IF op = "import_virtual_stock" THEN {"Content-Type"} ELSE {}

\* saved_headers[k] = session.headers.pop(k, None), kept when not None.
SavedHeaders(hdrs, override) == hdrs \cap override

PopHeaders(hdrs, override) == hdrs \ override

\* The finally block of _request.
RestoreHeaders(hdrs, saved) == hdrs \cup saved

\* Entry into _request: attempt 1 of the for loop.
NewRequest(op, hdrs) ==
    [IdleReq EXCEPT !.status = "active", !.op = op, !.attempt = 1,
                    !.saved = SavedHeaders(hdrs, HeadersOverride(op))]

\* A client operation is invoked: the call is logged and _request starts.
Invoke(op, key, arg, items) ==
    /\ req' = NewRequest(op, headers)
    /\ headers' = PopHeaders(headers, HeadersOverride(op))
    /\ calls' = Append(calls, [op |-> op, key |-> key, arg |-> arg, items |-> items])

\* Identifier the target assigns to the entity a call creates.
TargetId(op, call) ==
    CASE op = "create_product" -> 10 + call.key
      [] op = "create_virtual_inventory" -> 20 + call.key
      [] op = "create_virtual_stock_item" -> 100 + call.items[1]
      [] OTHER -> NoId

\* Response bodies of a 2xx answer: the identifier at top level, under data,
\* under stock, or missing.
OkBodies(op, call, reliable) ==
    LET v == TargetId(op, call)
    IN  IF op \in {"create_product", "create_virtual_inventory"}
        THEN {[NoBody EXCEPT !.id = v], [NoBody EXCEPT !.data_id = v]}
             \cup (IF reliable THEN {} ELSE {NoBody})
        ELSE IF op = "create_virtual_stock_item"
        THEN {[NoBody EXCEPT !.stock_id = v]} \cup (IF reliable THEN {} ELSE {NoBody})
        ELSE {NoBody}

\* What the server may answer to one HTTP attempt.
Responses(op, call, reliable) ==
    {[kind |-> "ok", body |-> b] : b \in OkBodies(op, call, reliable)}
    \cup (IF reliable THEN {}
          ELSE {[kind |-> k, body |-> NoBody] :
                    k \in {"rate_limited", "bad_retry_after", "conn_error", "http_error"}})

\* return resp.json(): the caller gets the body, the locals are gone.
Returned(r, body) == [IdleReq EXCEPT !.status = "returned", !.op = r.op, !.body = body]

\* An exception leaves _request.
Raised(r, exc) == [r EXCEPT !.status = "raised", !.exc = exc, !.saved = {}]

\* End of one pass of `for attempt in range(1, retry_count + 1)` that did not
\* return: the next attempt, or the RuntimeError after the loop.
NextAttempt(r) ==
    IF r.attempt < RetryCount
    THEN [r EXCEPT !.attempt = @ + 1]
    ELSE Raised(r, "RuntimeError")

\* status 429: sleep, then `continue`.
OnRateLimited(r) == NextAttempt(r)

\* The first failure is remembered instead of the last.
OnTransportErrorKeepFirst(r, e) ==
    NextAttempt([r EXCEPT !.last_err = IF @ = "none" THEN e ELSE @, !.failures = @ + 1,
                          !.waits = IF r.attempt < RetryCount THEN @ + 1 ELSE @])

\* except RequestException as e: last_err = e, sleep unless this was the last
\* attempt.
OnTransportError(r, e) ==
    NextAttempt([r EXCEPT !.last_err = e, !.failures = @ + 1,
                          !.waits = IF r.attempt < RetryCount THEN @ + 1 ELSE @])

\* The body of the for loop on one response.  A Retry-After header that is
\* not a number makes float() raise ValueError, which is no RequestException.
HandleResponse(r, resp) ==
    LET r1 == [r EXCEPT !.last_resp = resp.kind]
    IN  CASE resp.kind = "ok" -> Returned(r1, resp.body)
          [] resp.kind = "rate_limited" -> OnRateLimited(r1)
          [] resp.kind = "bad_retry_after" ->
                [IdleReq EXCEPT !.status = "raised", !.op = r.op, !.exc = "ValueError"]
          [] OTHER -> OnTransportError(r1, resp.kind)

\* The headers are restored on the return path only, not in a finally block.
HeadersAfterReturnOnly(r, r2, hdrs) ==
    IF r2.status = "returned" THEN RestoreHeaders(hdrs, r.saved) ELSE hdrs

\* Session headers after one pass of the loop: the finally block restores them
\* when _request is left.
HeadersAfter(r, r2, hdrs) ==
    IF r2.status = "active" THEN hdrs ELSE RestoreHeaders(hdrs, r.saved)

\* The body carries an identifier: at top level, under data or under stock.
HasIdentifier(body) == body.id # NoId \/ body.data_id # NoId \/ body.stock_id # NoId

\* The server keeps what it answered 2xx, and whether the body it returned
\* carried an identifier.
Stored(t, call, resp) ==
    IF resp.kind = "ok"
    THEN t \cup {[op |-> call.op, key |-> call.key, items |-> call.items,
                  ident |-> HasIdentifier(resp.body)]}
    ELSE t

\* One HTTP attempt of the request in progress.
Attempt ==
    /\ req.status = "active"
    /\ \E resp \in Responses(req.op, calls[Len(calls)], scope.reliable) :
          LET r == HandleResponse(req, resp)
          IN  /\ req' = r
              /\ headers' = HeadersAfter(req, r, headers)
              /\ target' = Stored(target, calls[Len(calls)], resp)
    /\ UNCHANGED <<opts, scope, db, pc, idx, goods_with_carmis, local, product_map,
                   vinv_map, stats, payload, calls, faults, report, sim_stats>>

Done(r) == r.status \in {"returned", "raised"}

\* Only the top-level id is looked at.
ExtractIdTopLevel(body) == body.id

\* result.get("id") or result.get("data", {}).get("id")
ExtractId(body) == IF body.id # NoId THEN body.id ELSE body.data_id

\* A reader call may raise while the fault budget lasts.
MayFault == faults < scope.faults

\* ------------------------------------------------------------------------
\* main(): reader.connect(), the connectivity probe, engine.run()

\* reader.connect(); a failure prints the error and exits with status 1.
Connect ==
    /\ pc = "connect"
    /\ \/ pc' = "preflight" /\ faults' = faults
       \/ MayFault /\ faults' = faults + 1 /\ pc' = "exit1"
    /\ UNCHANGED <<opts, scope, db, idx, goods_with_carmis, local, product_map, vinv_map,
                   stats, payload, headers, req, calls, target, report, sim_stats>>

\* The probe made in every run, simulated or not.
ShouldProbeAlways(o) == TRUE

\* if not migration_opts.dry_run: the API connection is tested
ShouldProbe(o) == ~o.dry_run

\* client.test_connection(), in a run that writes
Preflight ==
    /\ pc = "preflight"
    /\ IF ShouldProbe(opts)
       THEN pc' = "preflight_ret" /\ Invoke("list_products", 0, NoId, <<>>)
       ELSE pc' = "run" /\ UNCHANGED <<headers, req, calls>>
    /\ UNCHANGED <<opts, scope, db, idx, goods_with_carmis, local, product_map, vinv_map,
                   stats, payload, faults, target, report, sim_stats>>

\* The probe reports success whatever the request did.
TestConnectionOptimistic(r) == TRUE

\* test_connection: True when _request returned, False on any Exception.
TestConnection(r) == r.status = "returned"

\* if not client.test_connection(): reader.close(); sys.exit(1)
PreflightRet ==
    /\ pc = "preflight_ret"
    /\ Done(req)
    /\ pc' = IF TestConnection(req) THEN "run" ELSE "exit1"
    /\ req' = IdleReq
    /\ UNCHANGED <<opts, scope, db, idx, goods_with_carmis, local, product_map, vinv_map,
                   stats, payload, headers, calls, faults, target, report, sim_stats>>

\* engine.run() up to Step 1: reader.get_summary(); an exception leaves run()
\* and main exits with status 1.
EngineRun ==
    /\ pc = "run"
    /\ \/ pc' = "step1" /\ faults' = faults
       \/ MayFault /\ faults' = faults + 1 /\ pc' = "exit1"
    /\ UNCHANGED <<opts, scope, db, idx, goods_with_carmis, local, product_map, vinv_map,
                   stats, payload, headers, req, calls, target, report, sim_stats>>

\* ------------------------------------------------------------------------
\* Step 1: migrate_products

\* Rows a reader query returns: what was read before, or any rows of the scope.
ReadGoods == IF db.goods.read THEN {db.goods.rows} ELSE GoodsLists(scope.goods)

\* if self.opts.migrate_products: goods_list = reader.get_goods(); empty: return
StartProducts ==
    /\ pc = "step1"
    /\ IF ~opts.migrate_products
       THEN pc' = "step2" /\ UNCHANGED <<db, idx, faults>>
       ELSE \/ MayFault /\ faults' = faults + 1 /\ pc' = "exit1" /\ UNCHANGED <<db, idx>>
            \/ \E gl \in ReadGoods :
                  /\ db' = [db EXCEPT !.goods = Rows(gl)]
                  /\ faults' = faults
                  /\ IF gl = <<>> THEN pc' = "step2" /\ idx' = idx
                                  ELSE pc' = "product" /\ idx' = 1
    /\ UNCHANGED <<opts, scope, goods_with_carmis, local, product_map, vinv_map, stats,
                   payload, headers, req, calls, target, report, sim_stats>>

\* The engine's maps and statistics as one value, for the per-unit outcomes.
Engine(pm, vm, st) == [product_map |-> pm, vinv_map |-> vm, stats |-> st]

\* self.product_map[gid] = pid; self.stats["products_created"] += 1
ProductCreated(e, gid, pid) ==
    [e EXCEPT !.product_map = DictSet(@, gid, pid), !.stats.products_created = @ + 1]

\* The failure is logged but not counted.
ProductFailedUncounted(e) == e

\* self.stats["products_failed"] += 1 (no identifier returned, or the except branch)
ProductFailed(e) == [e EXCEPT !.stats.products_failed = @ + 1]

\* A failed create maps the product to the sentinel.
ProductOutcomeSentinelOnFailure(e, gid, r) ==
    IF r.status = "returned" /\ ExtractId(r.body) # NoId
    THEN ProductCreated(e, gid, ExtractId(r.body))
    ELSE [ProductFailed(e) EXCEPT !.product_map = DictSet(@, gid, Sentinel)]

\* A failed create leaves an entry without identifier in the map.
ProductOutcomeMapsFailure(e, gid, r) ==
    IF r.status = "returned" /\ ExtractId(r.body) # NoId
    THEN ProductCreated(e, gid, ExtractId(r.body))
    ELSE [ProductFailed(e) EXCEPT !.product_map = DictSet(@, gid, NoId)]

\* Lines 391-402 on the outcome r of create_product.
ProductOutcome(e, gid, r) ==
    IF r.status = "raised" THEN ProductFailed(e)
    ELSE LET pid == ExtractId(r.body)
         IN  IF pid # NoId THEN ProductCreated(e, gid, pid) ELSE ProductFailed(e)

\* The for loop of migrate_products moves on: next row, or Step 2.
ProductAdvance ==
    IF idx < Len(db.goods.rows) THEN pc' = "product" /\ idx' = idx + 1
                                ELSE pc' = "step2" /\ idx' = 0

\* One product up to the create_product call (lines 378-391).
ProductUnit ==
    /\ pc = "product"
    /\ LET goods == db.goods.rows[idx]
           e == Engine(product_map, vinv_map, stats)
       IN  IF goods.bad
           THEN /\ stats' = ProductFailed(e).stats
                /\ ProductAdvance
                /\ UNCHANGED <<product_map, headers, req, calls>>
           ELSE IF opts.dry_run
           THEN /\ product_map' = ProductCreated(e, goods.id, Sentinel).product_map
                /\ stats' = ProductCreated(e, goods.id, Sentinel).stats
                /\ ProductAdvance
                /\ UNCHANGED <<headers, req, calls>>
           ELSE /\ Invoke("create_product", goods.id, NoId, <<>>)
                /\ pc' = "product_ret"
                /\ UNCHANGED <<idx, product_map, stats>>
    /\ UNCHANGED <<opts, scope, db, goods_with_carmis, local, vinv_map, payload, faults,
                   target, report, sim_stats>>

\* create_product returned or raised (lines 392-404).
ProductRet ==
    /\ pc = "product_ret"
    /\ Done(req)
    /\ LET out == ProductOutcome(Engine(product_map, vinv_map, stats),
                                 db.goods.rows[idx].id, req)
       IN  product_map' = out.product_map /\ stats' = out.stats
    /\ ProductAdvance
    /\ req' = IdleReq
    /\ UNCHANGED <<opts, scope, db, goods_with_carmis, local, vinv_map, payload, headers,
                   calls, faults, target, report, sim_stats>>

\* ------------------------------------------------------------------------
\* Step 2: migrate_carmis and _migrate_carmis_for_goods

\* get_carmis_by_goods results for every mapped product: what was read before,
\* or any rows of the scope.
ReadCarmis(keys) ==
    {cm \in [keys -> UNION {CarmisLists(g, scope.carmis) : g \in keys}] :
        \A g \in keys : /\ cm[g] \in CarmisLists(g, scope.carmis)
                         /\ db.carmis[g].read => cm[g] = db.carmis[g].rows}

\* Every product is taken to have unsold items.
HasUnsoldAlways(carmis) == TRUE

\* The product has unsold rows: get_carmis_count(gid) > 0 in migrate_carmis,
\* and not `if not carmis: return` in _migrate_carmis_for_goods.
HasUnsold(carmis) == Len(carmis) > 0

\* The pairs are collected last product first.
RECURSIVE GoodsWithCarmisReversed(_, _)
GoodsWithCarmisReversed(pm, cm) ==
    IF pm = <<>> THEN <<>>
    ELSE IF HasUnsold(cm[Head(pm)[1]])
         THEN GoodsWithCarmisReversed(Tail(pm), cm) \o <<Head(pm)>>
         ELSE GoodsWithCarmisReversed(Tail(pm), cm)

\* [(gid, pid) for gid, pid in product_map.items() if get_carmis_count(gid) > 0]
RECURSIVE GoodsWithCarmis(_, _)
GoodsWithCarmis(pm, cm) ==
    IF pm = <<>> THEN <<>>
    ELSE IF HasUnsold(cm[Head(pm)[1]])
         THEN <<Head(pm)>> \o GoodsWithCarmis(Tail(pm), cm)
         ELSE GoodsWithCarmis(Tail(pm), cm)

\* if self.opts.migrate_carmis: migrate_carmis() up to its for loop.  The
\* get_carmis_count calls are outside any try: an exception leaves the stage,
\* run() and reaches main, which exits with status 1.
StartCarmis ==
    /\ pc = "step2"
    /\ IF ~opts.migrate_carmis \/ product_map = <<>>
       THEN pc' = "step3" /\ UNCHANGED <<db, idx, goods_with_carmis, faults>>
       ELSE \/ /\ MayFault
               /\ faults' = faults + 1
               /\ pc' = "exit1"
               /\ UNCHANGED <<db, idx, goods_with_carmis>>
            \/ \E cm \in ReadCarmis(DictKeys(product_map)) :
                  LET gwc == GoodsWithCarmis(product_map, cm)
                  IN  /\ db' = [db EXCEPT !.carmis =
                                  [g \in DOMAIN db.carmis |->
                                      IF g \in DOMAIN cm THEN Rows(cm[g]) ELSE db.carmis[g]]]
                      /\ faults' = faults
                      /\ goods_with_carmis' = gwc
                      /\ IF gwc = <<>> THEN pc' = "step3" /\ idx' = idx
                                       ELSE pc' = "carmis" /\ idx' = 1
    /\ UNCHANGED <<opts, scope, local, product_map, vinv_map, stats, payload, headers,
                   req, calls, target, report, sim_stats>>

\* Reusable items are not filtered out of the bulk import.
RECURSIVE NormalItemsWithLoops(_)
NormalItemsWithLoops(carmis) ==
    IF carmis = <<>> THEN <<>>
    ELSE IF Head(carmis).carmi # NoId
         THEN <<Head(carmis).carmi>> \o NormalItemsWithLoops(Tail(carmis))
         ELSE NormalItemsWithLoops(Tail(carmis))

\* [c["carmi"] for c in carmis if c.get("carmi") and not c.get("is_loop")]
RECURSIVE NormalItems(_)
NormalItems(carmis) ==
    IF carmis = <<>> THEN <<>>
    ELSE IF Head(carmis).carmi # NoId /\ ~Head(carmis).is_loop
         THEN <<Head(carmis).carmi>> \o NormalItems(Tail(carmis))
         ELSE NormalItems(Tail(carmis))

\* [c for c in carmis if c.get("carmi") and c.get("is_loop")]
RECURSIVE LoopItems(_)
LoopItems(carmis) ==
    IF carmis = <<>> THEN <<>>
    ELSE IF Head(carmis).carmi # NoId /\ Head(carmis).is_loop
         THEN <<Head(carmis)>> \o LoopItems(Tail(carmis))
         ELSE LoopItems(Tail(carmis))

\* The batch of `for i in range(0, len(normal_items), batch_size)` at offset i.
Batch(l) == Slice(l.normal_items, l.i, opts.batch_size)

\* Position after the reusable items: `if product_id > 0` guards the bind call.
PosAfterLoops(l) == IF l.product_id > 0 THEN "bind" ELSE "carmis_end"

\* The reusable items are skipped.
PosAfterBatchesSkipLoops(l) == PosAfterLoops(l)

\* Position after the batches: the loop over loop_items, when there are any.
PosAfterBatches(l) == IF Len(l.loop_items) > 0 THEN "loop" ELSE PosAfterLoops(l)

\* Position after the virtual inventory was created.
PosAfterVinv(l) == IF Len(l.normal_items) > 0 THEN "batch" ELSE PosAfterBatches(l)


\* Off by one: a last batch of a single item is dropped.
PosAfterBatchShort(l) ==
    IF l.i + opts.batch_size + 1 < Len(l.normal_items) THEN "batch"
    ELSE PosAfterBatches(l)

\* Position after the batch at offset l.i.
PosAfterBatch(l) ==
    IF l.i + opts.batch_size < Len(l.normal_items) THEN "batch" ELSE PosAfterBatches(l)

\* Position after the reusable item l.li.
PosAfterLoop(l) == IF l.li < Len(l.loop_items) THEN "loop" ELSE PosAfterLoops(l)

\* _migrate_carmis_for_goods is left (return, or an exception caught by the
\* except of migrate_carmis): next pair of goods_with_carmis, or Step 3.
CarmisAdvance ==
    /\ local' = NoLocal
    /\ IF idx < Len(goods_with_carmis) THEN pc' = "carmis" /\ idx' = idx + 1
                                        ELSE pc' = "step3" /\ idx' = 0

\* Continue _migrate_carmis_for_goods at position p with locals l.
Goto(p, l) ==
    IF p = "carmis_end" THEN CarmisAdvance
    ELSE pc' = p /\ local' = l /\ idx' = idx

\* Dry run, lines 452-457.
VinvSimulated(e, gid, carmis) ==
    [e EXCEPT !.vinv_map = DictSet(@, gid, Sentinel),
              !.stats.vinv_created = @ + 1,
              !.stats.carmis_imported = @ + Len(carmis)]

\* One product's stock up to the create_virtual_inventory call (lines 431-459).
CarmisUnit ==
    /\ pc = "carmis"
    /\ LET gid == goods_with_carmis[idx][1]
           pid == goods_with_carmis[idx][2]
           carmis == db.carmis[gid].rows
           e == Engine(product_map, vinv_map, stats)
       IN  \/ /\ MayFault
              /\ faults' = faults + 1
              /\ CarmisAdvance
              /\ UNCHANGED <<vinv_map, stats, headers, req, calls>>
           \/ /\ faults' = faults
              /\ IF ~HasUnsold(carmis)
                 THEN CarmisAdvance /\ UNCHANGED <<vinv_map, stats, headers, req, calls>>
                 ELSE IF opts.dry_run
                 THEN /\ vinv_map' = VinvSimulated(e, gid, carmis).vinv_map
                      /\ stats' = VinvSimulated(e, gid, carmis).stats
                      /\ CarmisAdvance
                      /\ UNCHANGED <<headers, req, calls>>
                 ELSE /\ Invoke("create_virtual_inventory", gid, NoId, <<>>)
                      /\ pc' = "vinv_ret"
                      /\ local' = [NoLocal EXCEPT !.goods_id = gid, !.product_id = pid]
                      /\ UNCHANGED <<idx, vinv_map, stats>>
    /\ UNCHANGED <<opts, scope, db, goods_with_carmis, product_map, payload, target, report,
                   sim_stats>>

\* self.vinv_map[goods_id] = vinv_id; self.stats["vinv_created"] += 1
VinvCreated(e, gid, vinv_id) ==
    [e EXCEPT !.vinv_map = DictSet(@, gid, vinv_id), !.stats.vinv_created = @ + 1]

\* create_virtual_inventory returned or raised (lines 460-471).
VinvRet ==
    /\ pc = "vinv_ret"
    /\ Done(req)
    /\ LET vinv_id == ExtractId(req.body)
           carmis == db.carmis[local.goods_id].rows
           l == [local EXCEPT !.vinv_id = vinv_id,
                              !.normal_items = NormalItems(carmis),
                              !.loop_items = LoopItems(carmis),
                              !.i = 0, !.li = 1]
           out == VinvCreated(Engine(product_map, vinv_map, stats), local.goods_id, vinv_id)
       IN  IF req.status = "raised" \/ vinv_id = NoId
           THEN CarmisAdvance /\ UNCHANGED <<vinv_map, stats>>
           ELSE /\ vinv_map' = out.vinv_map
                /\ stats' = out.stats
                /\ Goto(PosAfterVinv(l), l)
    /\ req' = IdleReq
    /\ UNCHANGED <<opts, scope, db, goods_with_carmis, product_map, payload, headers,
                   calls, faults, target, report, sim_stats>>

\* self.client.import_virtual_stock(vinv_id, batch)
BatchCall ==
    /\ pc = "batch"
    /\ Invoke("import_virtual_stock", local.goods_id, local.vinv_id, Batch(local))
    /\ pc' = "batch_ret"
    /\ UNCHANGED <<opts, scope, db, idx, goods_with_carmis, local, product_map, vinv_map,
                   stats, payload, faults, target, report, sim_stats>>

\* Lines 477-480 on the outcome r of the bulk import of batch b.
BatchOutcome(st, r, b) ==
    IF r.status = "returned" THEN [st EXCEPT !.carmis_imported = @ + Len(b)] ELSE st

\* import_virtual_stock returned or raised; a failed batch is logged only.
BatchRet ==
    /\ pc = "batch_ret"
    /\ Done(req)
    /\ stats' = BatchOutcome(stats, req, Batch(local))
    /\ Goto(PosAfterBatch(local), [local EXCEPT !.i = @ + opts.batch_size])
    /\ req' = IdleReq
    /\ UNCHANGED <<opts, scope, db, goods_with_carmis, product_map, vinv_map, payload,
                   headers, calls, faults, target, report, sim_stats>>

\* self.client.create_virtual_stock_item(vinv_id, c["carmi"], remark=...)
LoopCall ==
    /\ pc = "loop"
    /\ Invoke("create_virtual_stock_item", local.goods_id, local.vinv_id,
              <<local.loop_items[local.li].carmi>>)
    /\ pc' = "loop_ret"
    /\ UNCHANGED <<opts, scope, db, idx, goods_with_carmis, local, product_map, vinv_map,
                   stats, payload, faults, target, report, sim_stats>>

\* create_virtual_stock_item returned or raised (lines 488-493): with a stock
\* id the item is reserved next, without one it is counted at once.
LoopRet ==
    /\ pc = "loop_ret"
    /\ Done(req)
    /\ LET stock_id == req.body.stock_id
           next == [local EXCEPT !.li = @ + 1]
       IN  IF req.status = "raised"
           THEN /\ Goto(PosAfterLoop(local), next)
                /\ req' = IdleReq
                /\ UNCHANGED <<stats, headers, calls>>
           ELSE IF stock_id # NoId
           THEN /\ Invoke("reserve_stock_item", local.goods_id, local.vinv_id, <<stock_id>>)
                /\ pc' = "reserve_ret"
                /\ UNCHANGED <<idx, local, stats>>
           ELSE /\ stats' = [stats EXCEPT !.carmis_imported = @ + 1]
                /\ Goto(PosAfterLoop(local), next)
                /\ req' = IdleReq
                /\ UNCHANGED <<headers, calls>>
    /\ UNCHANGED <<opts, scope, db, goods_with_carmis, product_map, vinv_map, payload,
                   faults, target, report, sim_stats>>

\* reserve_stock_item returned (the item is counted) or raised (logged only).
ReserveRet ==
    /\ pc = "reserve_ret"
    /\ Done(req)
    /\ stats' = IF req.status = "returned"
                THEN [stats EXCEPT !.carmis_imported = @ + 1] ELSE stats
    /\ Goto(PosAfterLoop(local), [local EXCEPT !.li = @ + 1])
    /\ req' = IdleReq
    /\ UNCHANGED <<opts, scope, db, goods_with_carmis, product_map, vinv_map, payload,
                   headers, calls, faults, target, report, sim_stats>>

\* self.client.bind_virtual_inventory(product_id, vinv_id)
BindCall ==
    /\ pc = "bind"
    /\ Invoke("bind_virtual_inventory", local.goods_id, local.vinv_id, <<local.product_id>>)
    /\ pc' = "bind_ret"
    /\ UNCHANGED <<opts, scope, db, idx, goods_with_carmis, local, product_map, vinv_map,
                   stats, payload, faults, target, report, sim_stats>>

\* bind_virtual_inventory returned (counted) or raised (logged only).
BindRet ==
    /\ pc = "bind_ret"
    /\ Done(req)
    /\ stats' = IF req.status = "returned"
                THEN [stats EXCEPT !.bindings_created = @ + 1] ELSE stats
    /\ CarmisAdvance
    /\ req' = IdleReq
    /\ UNCHANGED <<opts, scope, db, goods_with_carmis, product_map, vinv_map, payload,
                   headers, calls, faults, target, report, sim_stats>>

\* ------------------------------------------------------------------------
\* Step 3: migrate_coupons

ReadCoupons ==
    IF db.coupons.read THEN {db.coupons.rows}
    ELSE {NumberCoupons(cs) :
             cs \in CouponLists(scope.coupons, scope.goods, scope.coupon_goods)}

\* if self.opts.migrate_coupons: coupons = reader.get_coupons(); empty: return
StartCoupons ==
    /\ pc = "step3"
    /\ IF ~opts.migrate_coupons
       THEN pc' = "summary" /\ UNCHANGED <<db, idx, faults>>
       ELSE \/ MayFault /\ faults' = faults + 1 /\ pc' = "exit1" /\ UNCHANGED <<db, idx>>
            \/ \E cs \in ReadCoupons :
                  /\ db' = [db EXCEPT !.coupons = Rows(cs)]
                  /\ faults' = faults
                  /\ IF cs = <<>> THEN pc' = "summary" /\ idx' = idx
                                  ELSE pc' = "coupon" /\ idx' = 1
    /\ UNCHANGED <<opts, scope, goods_with_carmis, local, product_map, vinv_map, stats,
                   payload, headers, req, calls, target, report, sim_stats>>

\* The sentinel is not told from a real identifier.
IsMigratedAnyValue(pm, gid) == DictHas(pm, gid)

\* gid in self.product_map and self.product_map[gid] > 0
IsMigrated(pm, gid) == DictHas(pm, gid) /\ DictGet(pm, gid) > 0

\* [product_map[gid] for gid in djk_goods_ids if gid in product_map and product_map[gid] > 0]
RECURSIVE AlProductIds(_, _)
AlProductIds(gs, pm) ==
    IF gs = <<>> THEN <<>>
    ELSE IF IsMigrated(pm, Head(gs))
         THEN <<DictGet(pm, Head(gs))>> \o AlProductIds(Tail(gs), pm)
         ELSE AlProductIds(Tail(gs), pm)

\* The payload of lines 529-544, as far as the product association goes.
CouponPayload(cid, ids) ==
    IF ids # <<>>
    THEN [cid |-> cid, product_scope |-> "specific", has_product_ids |-> TRUE,
          product_ids |-> ids]
    ELSE [cid |-> cid, product_scope |-> "all", has_product_ids |-> FALSE,
          product_ids |-> <<>>]

\* The for loop of migrate_coupons moves on: next coupon, or print_summary.
CouponAdvance ==
    IF idx < Len(db.coupons.rows) THEN pc' = "coupon" /\ idx' = idx + 1
                                  ELSE pc' = "summary" /\ idx' = 0

\* One coupon up to the create_promo_code call (lines 516-550); an exception of
\* get_coupon_goods or of the payload's conversions is caught and counted.
CouponUnit ==
    /\ pc = "coupon"
    /\ LET coupon == db.coupons.rows[idx]
           p == CouponPayload(coupon.id, AlProductIds(coupon.goods, product_map))
       IN  \/ /\ MayFault
              /\ faults' = faults + 1
              /\ stats' = [stats EXCEPT !.coupons_failed = @ + 1]
              /\ CouponAdvance
              /\ UNCHANGED <<payload, headers, req, calls>>
           \/ /\ faults' = faults
              /\ IF coupon.bad
                 THEN /\ stats' = [stats EXCEPT !.coupons_failed = @ + 1]
                      /\ CouponAdvance
                      /\ UNCHANGED <<payload, headers, req, calls>>
                 ELSE IF opts.dry_run
                 THEN /\ payload' = p
                      /\ stats' = [stats EXCEPT !.coupons_created = @ + 1]
                      /\ CouponAdvance
                      /\ UNCHANGED <<headers, req, calls>>
                 ELSE /\ payload' = p
                      /\ Invoke("create_promo_code", coupon.id, NoId, p.product_ids)
                      /\ pc' = "coupon_ret"
                      /\ UNCHANGED <<idx, stats>>
    /\ UNCHANGED <<opts, scope, db, goods_with_carmis, local, product_map, vinv_map,
                   target, report, sim_stats>>

\* create_promo_code returned (created) or raised (failed).
CouponRet ==
    /\ pc = "coupon_ret"
    /\ Done(req)
    /\ stats' = IF req.status = "returned"
                THEN [stats EXCEPT !.coupons_created = @ + 1]
                ELSE [stats EXCEPT !.coupons_failed = @ + 1]
    /\ CouponAdvance
    /\ req' = IdleReq
    /\ UNCHANGED <<opts, scope, db, goods_with_carmis, local, product_map, vinv_map,
                   payload, headers, calls, faults, target, report, sim_stats>>

\* print_summary: the statistics table and migration_mapping.json; main returns.
PrintSummary ==
    /\ pc = "summary"
    /\ report' = [shown |-> TRUE, stats |-> stats, product_map |-> product_map,
                  vinv_map |-> vinv_map]
    /\ pc' = "exit0"
    /\ UNCHANGED <<opts, scope, db, idx, goods_with_carmis, local, product_map, vinv_map,
                   stats, payload, headers, req, calls, faults, target, sim_stats>>

\* ------------------------------------------------------------------------
Next ==
    \/ Connect \/ Preflight \/ PreflightRet \/ EngineRun
    \/ StartProducts \/ ProductUnit \/ ProductRet
    \/ StartCarmis \/ CarmisUnit \/ VinvRet \/ BatchCall \/ BatchRet
    \/ LoopCall \/ LoopRet \/ ReserveRet \/ BindCall \/ BindRet
    \/ StartCoupons \/ CouponUnit \/ CouponRet
    \/ PrintSummary
    \/ Attempt

\* A whole run of the script, any options, any source data within the bounds,
\* any answers of the server.
Spec == Init /\ [][Next]_vars

\* ------------------------------------------------------------------------
\* Stock scenarios: one product with up to MaxStock unsold carmis, batch sizes
\* 1..MaxStock, no coupons, any answers of the server.
InitStock ==
    \E o \in OptionSets(MaxStock) :
        /\ o.migrate_products /\ o.migrate_carmis
        /\ Constructed(o, Scope(1, MaxStock, 0, 0, 0, FALSE))

NextStock ==
    \/ Connect \/ Preflight \/ PreflightRet \/ EngineRun
    \/ StartProducts \/ ProductUnit \/ ProductRet
    \/ StartCarmis \/ CarmisUnit \/ VinvRet \/ BatchCall \/ BatchRet
    \/ LoopCall \/ LoopRet \/ ReserveRet \/ BindCall \/ BindRet
    \/ StartCoupons
    \/ PrintSummary
    \/ Attempt

SpecStock == InitStock /\ [][NextStock]_vars

\* ------------------------------------------------------------------------
\* Parity scenarios: the script is run with --dry-run and then, on the same
\* source data and with the same options, without it, against a server that
\* answers every call 2xx with an identifier; the reader never fails.
InitParity ==
    \E o \in OptionSets(MaxCarmis) :
        /\ o.dry_run
        /\ Constructed(o, Scope(MaxGoods, MaxCarmis, MaxCoupons, MaxCouponGoods, 0, TRUE))

\* The dry run is over: its statistics are kept and the script starts again,
\* constructed anew, without --dry-run.
SecondRun ==
    /\ pc = "exit0"
    /\ opts.dry_run
    /\ ~sim_stats.known
    /\ sim_stats' = [known |-> TRUE, stats |-> stats]
    /\ opts' = [opts EXCEPT !.dry_run = FALSE]
    /\ pc' = "connect"
    /\ idx' = 0
    /\ goods_with_carmis' = <<>>
    /\ local' = NoLocal
    /\ product_map' = <<>>
    /\ vinv_map' = <<>>
    /\ stats' = ZeroStats
    /\ payload' = NoPayload
    /\ report' = [shown |-> FALSE, stats |-> ZeroStats, product_map |-> <<>>,
                  vinv_map |-> <<>>]
    /\ UNCHANGED <<scope, db, headers, req, calls, target, faults>>

NextParity == Next \/ SecondRun

SpecParity == InitParity /\ [][NextParity]_vars

\* ------------------------------------------------------------------------
\* Interrupt scenarios: the operator may press Ctrl-C at any point of the run.

\* Positions at which the process has ended.
Ended == {"exit0", "exit1", "exit130", "traceback"}

\* Where a KeyboardInterrupt raised at position p ends the process: inside
\* the try of main around engine.run() it is caught, the interruption is
\* announced and the process exits with status 130; before it (reader.connect
\* and test_connection catch Exception only) it ends main with a traceback.
OnKeyboardInterrupt(p) ==
    IF p \in {"connect", "preflight", "preflight_ret"} THEN "traceback" ELSE "exit130"

\* A KeyboardInterrupt is raised in the running process.  No `except Exception`
\* of the engine or of the client catches it; the finally block of a request
\* in progress restores the headers on the way out.
Interrupt ==
    /\ pc \notin Ended
    /\ pc' = OnKeyboardInterrupt(pc)
    /\ headers' = RestoreHeaders(headers, req.saved)
    /\ req' = IdleReq
    /\ UNCHANGED <<opts, scope, db, idx, goods_with_carmis, local, product_map, vinv_map,
                   stats, payload, calls, faults, target, report, sim_stats>>

NextInterrupt == Next \/ Interrupt

SpecInterrupt == Init /\ [][NextInterrupt]_vars

\* ========================================================================
\* Properties

\* Number of source products migrate_products has finished with.
ProductsDone ==
    IF ~db.goods.read \/ pc \in {"connect", "preflight", "preflight_ret", "run", "step1"}
    THEN 0
    ELSE IF pc \in {"product", "product_ret"} THEN idx - 1 ELSE Len(db.goods.rows)

DoneProducts == {db.goods.rows[j].id : j \in 1..ProductsDone}

\* The server answered the call op for source record key with an identifier.
ReturnedIdentifier(op, key) == \E t \in target : t.op = op /\ t.key = key /\ t.ident

\* C1: in commit mode, a processed product has a product_map entry exactly
\* when its create-product call returned a body with an identifier (top-level
\* id or data.id); every other processed product was counted in
\* products_failed and has no entry.
C1_MappingIffIdentifier ==
    ~opts.dry_run =>
        LET ok == {g \in DoneProducts : ReturnedIdentifier("create_product", g)}
        IN  /\ \A g \in DoneProducts : DictHas(product_map, g) <=> g \in ok
            /\ stats.products_failed = Cardinality(DoneProducts \ ok)
            /\ stats.products_created = Cardinality(ok)

\* Two products processed in commit mode: one mapped, one answered 2xx without
\* an identifier and counted as failed.
C1_Witness ==
    /\ ~opts.dry_run
    /\ ProductsDone = 2
    /\ Len(product_map) = 1
    /\ stats.products_failed = 1
    /\ \E t \in target : t.op = "create_product" /\ ~t.ident

\* C2: the statistics of a dry run equal those of a commit run on the same
\* data against a server on which every call succeeds with an identifier.
C2_StatisticsParity ==
    (sim_stats.known /\ pc = "exit0") => stats = sim_stats.stats

\* C3: in a dry run no client operation is ever invoked, the probe included,
\* and every product_map and vinv_map entry holds the sentinel -1.
C3_DryRunNoCalls ==
    opts.dry_run =>
        /\ calls = <<>>
        /\ target = {}
        /\ req.status = "idle"
        /\ \A j \in 1..Len(product_map) : product_map[j][2] = -1
        /\ \A j \in 1..Len(vinv_map) : vinv_map[j][2] = -1

\* A finished dry run that mapped two products, one inventory and a coupon.
C3_Witness ==
    /\ opts.dry_run
    /\ pc = "exit0"
    /\ Len(product_map) = 2
    /\ Len(vinv_map) >= 1
    /\ stats.coupons_created = 1

\* The process is inside the work of one unit of a stage: one product, one
\* product's stock (its unsold count included), one coupon.
InUnit ==
    \/ pc \in {"product", "product_ret", "carmis", "vinv_ret", "batch", "batch_ret",
               "loop", "loop_ret", "reserve_ret", "bind", "bind_ret", "coupon",
               "coupon_ret"}
    \/ pc = "step2" /\ opts.migrate_carmis /\ product_map # <<>>

\* C4: no exception raised while one unit is processed, by the transform, by a
\* reader call made for that unit or by a client call, leaves the stage (in
\* this program an exception that leaves a stage ends the run with status 1).
C4_FailureIsolation == [][InUnit => pc' # "exit1"]_vars

\* C5: a rate-limit response never consumes an attempt: the terminal error is
\* raised only after retry_count genuine transport failures.
C5_RateLimitFree ==
    (req.status = "raised" /\ req.exc = "RuntimeError") => req.failures = RetryCount

CreateOps == {"create_product", "create_virtual_inventory", "create_promo_code"}

\* C6, the client: never more than retry_count attempts; when all of them
\* failed the request has raised the terminal error, whose cause is the last
\* failure the server answered.
C6_Client ==
    /\ req.attempt <= RetryCount
    /\ req.failures = RetryCount =>
          /\ req.status = "raised"
          /\ req.exc = "RuntimeError"
          /\ req.attempt = RetryCount
          /\ req.last_err = req.last_resp

\* C6, the engine: no create operation is invoked twice for one source record.
C6_OneCreate ==
    \A a, b \in 1..Len(calls) :
        (a < b /\ calls[a].op \in CreateOps /\ calls[a].op = calls[b].op)
            => calls[a].key # calls[b].key

\* C6, the failed unit: a create call that raised invokes nothing further for
\* the record, which is counted once as failed (a product, a coupon) or left
\* without inventory.
C6_SingleFailure ==
    /\ (pc = "product_ret" /\ req.status = "raised") =>
          /\ stats'.products_failed = stats.products_failed + 1
          /\ product_map' = product_map /\ calls' = calls
    /\ (pc = "coupon_ret" /\ req.status = "raised") =>
          /\ stats'.coupons_failed = stats.coupons_failed + 1
          /\ stats'.coupons_created = stats.coupons_created /\ calls' = calls
    /\ (pc = "vinv_ret" /\ req.status = "raised") =>
          /\ vinv_map' = vinv_map /\ stats' = stats /\ calls' = calls
          /\ pc' \in {"carmis", "step3"}

\* C6: retry_count failed attempts raise one terminal error naming the last
\* failure; the engine does not repeat the operation and treats the record as
\* one failed unit.
C6_TerminalError == [](C6_Client /\ C6_OneCreate) /\ [][C6_SingleFailure]_vars

\* create_product raised after three failed attempts, the last an HTTP error.
C6_Witness ==
    /\ pc = "product_ret"
    /\ req.failures = RetryCount
    /\ req.last_err = "http_error"
    /\ Len(product_map) = 1

\* C7: the Content-Type header is missing exactly while a bulk import is in
\* progress; whenever no request is in progress the session headers are those
\* of construction; the two authentication headers are never removed.
C7_ScopedHeaderOverride ==
    /\ {"X-API-Key", "X-API-Secret"} \subseteq headers
    /\ "Content-Type" \notin headers <=>
          (req.status = "active" /\ req.op = "import_virtual_stock")
    /\ req.status # "active" => headers = {"X-API-Key", "X-API-Secret", "Content-Type"}

\* A bulk import left by an exception that is no terminal error, after a retry.
C7_Witness ==
    /\ pc = "batch_ret"
    /\ req.op = "import_virtual_stock"
    /\ req.status = "raised"
    /\ req.exc = "ValueError"
    /\ "Content-Type" \in headers

\* The coupon whose payload was built last.
PayloadCoupon == db.coupons.rows[payload.cid]

Range(q) == {q[j] : j \in 1..Len(q)}

\* Source product g has a product_map entry that holds a real identifier.
HasRealProduct(g) ==
    \E j \in 1..Len(product_map) : product_map[j][1] = g /\ product_map[j][2] # -1

RealProduct(g) == product_map[CHOOSE j \in 1..Len(product_map) : product_map[j][1] = g][2]

\* C8: the product list of a coupon's payload holds exactly the target
\* identifiers of its associated source products that are mapped to a real
\* identifier, in the order of the association; non-empty, the payload has
\* scope "specific" and carries the list, empty, scope "all" and no list.
C8_CouponScope ==
    payload.cid # 0 =>
        LET kept == {g \in Range(PayloadCoupon.goods) : HasRealProduct(g)}
        IN  /\ Range(payload.product_ids) = {RealProduct(g) : g \in kept}
            /\ Len(payload.product_ids) = Cardinality(kept)
            /\ \A a, b \in 1..Len(payload.product_ids) :
                  a < b => payload.product_ids[a] < payload.product_ids[b]
            /\ IF kept # {}
               THEN payload.product_scope = "specific" /\ payload.has_product_ids
               ELSE payload.product_scope = "all" /\ ~payload.has_product_ids

\* A coupon of two products, one migrated and one not: scope "specific" with
\* the one identifier.
C8_Witness ==
    /\ payload.cid # 0
    /\ Len(PayloadCoupon.goods) = 2
    /\ Len(payload.product_ids) = 1
    /\ payload.product_scope = "specific"

\* Contents of the unsold carmis rows of product g flagged is_loop.
LoopContents(g) ==
    {db.carmis[g].rows[j].carmi : j \in {k \in 1..Len(db.carmis[g].rows) :
                                           db.carmis[g].rows[k].is_loop}}

\* C9: no bulk-import call carries a reusable item; a reusable item is sent
\* by create-single-item calls only.
C9_LoopItemsNotBatched ==
    \A c \in 1..Len(calls) :
        /\ calls[c].op = "import_virtual_stock" =>
              Range(calls[c].items) \cap LoopContents(calls[c].key) = {}
        /\ (calls[c].op \in {"import_virtual_stock", "create_virtual_stock_item"}
            /\ Range(calls[c].items) \cap LoopContents(calls[c].key) # {})
              => calls[c].op = "create_virtual_stock_item"

\* A product with reusable and normal items: a bulk import and a single-item
\* creation were both invoked.
C9_Witness ==
    /\ \E c \in 1..Len(calls) : calls[c].op = "import_virtual_stock"
    /\ \E c \in 1..Len(calls) : calls[c].op = "create_virtual_stock_item"
    /\ pc = "exit0"

\* The bulk-import calls invoked for product g, in call order.
RECURSIVE ImportsOf(_, _)
ImportsOf(cs, g) ==
    IF cs = <<>> THEN <<>>
    ELSE IF Head(cs).op = "import_virtual_stock" /\ Head(cs).key = g
         THEN <<Head(cs).items>> \o ImportsOf(Tail(cs), g)
         ELSE ImportsOf(Tail(cs), g)

RECURSIVE Concat(_)
Concat(qs) == IF qs = <<>> THEN <<>> ELSE Head(qs) \o Concat(Tail(qs))

\* The non-reusable unsold items of product g that have a content, in source order.
SourceItems(g) ==
    LET rows == db.carmis[g].rows
        keep == SelectSeq(rows, LAMBDA c : ~c.is_loop /\ c.carmi # 0)
    IN  [j \in 1..Len(keep) |-> keep[j].carmi]

\* The batches of product g have all been attempted.
BatchesOver(g) ==
    /\ DictHas(vinv_map, g)
    /\ ~(local.goods_id = g /\ pc \in {"batch", "batch_ret"})

\* The contents of all non-reusable unsold rows of product g, in source order.
AllNonReusable(g) ==
    LET rows == db.carmis[g].rows
        keep == SelectSeq(rows, LAMBDA c : ~c.is_loop)
    IN  [j \in 1..Len(keep) |-> keep[j].carmi]

\* C10 as stated: the N non-reusable unsold items of a product, whatever
\* their content, are sent in exactly ceil(N/B) bulk-import calls which
\* concatenated give the list of all of them.
C10_AllRowsBatched ==
    ~opts.dry_run =>
        \A g \in DOMAIN db.carmis :
            LET imports == ImportsOf(calls, g)
                n == Len(AllNonReusable(g))
                b == opts.batch_size
            IN  BatchesOver(g) =>
                  /\ Len(imports) = (n + b - 1) \div b
                  /\ Concat(imports) = AllNonReusable(g)

\* C10, amended: in commit mode, once the inventory of a product exists, its
\* N non-reusable unsold items of non-empty content are sent in exactly
\* ceil(N/B) bulk-import calls of at most B items each, which concatenated in
\* call order give the source-ordered list of these items, whether or not
\* some of the calls failed.
C10_BatchSplitting ==
    ~opts.dry_run =>
        \A g \in DOMAIN db.carmis :
            LET imports == ImportsOf(calls, g)
                n == Len(SourceItems(g))
                b == opts.batch_size
            IN  /\ \A k \in 1..Len(imports) :
                      Len(imports[k]) >= 1 /\ Len(imports[k]) <= b
                /\ BatchesOver(g) =>
                      /\ Len(imports) = (n + b - 1) \div b
                      /\ Concat(imports) = SourceItems(g)

\* Three normal items in batches of two: two calls, of which the first failed
\* (only the second batch, of one item, was counted).
C10_Witness ==
    /\ pc = "exit0"
    /\ opts.batch_size = 2
    /\ Len(ImportsOf(calls, 1)) = 2
    /\ Len(SourceItems(1)) = 3
    /\ stats.carmis_imported = 1

\* ------------------------------------------------------------------------
\* Operations that write to the target: every client operation but the
\* read-only listing of the probe.
WriteOps ==
    {"create_product", "create_virtual_inventory", "import_virtual_stock",
     "create_virtual_stock_item", "reserve_stock_item", "bind_virtual_inventory",
     "create_promo_code"}

\* The listing call of the probe was answered 2xx.
ProbeSucceeded == \E t \in target : t.op = "list_products"

\* C11: in a run that writes, as long as the probe has not succeeded (the
\* source connection failed, the probe is in progress or it reported the API
\* unreachable, by an exhausted retry budget or any other exception of the
\* request) the engine has not started: no write operation was invoked, no
\* counter and no map has changed, and the process is before engine.run() or
\* has exited with status 1.
C11_PreflightAbort ==
    (~opts.dry_run /\ ~ProbeSucceeded) =>
        /\ \A c \in 1..Len(calls) : calls[c].op \notin WriteOps
        /\ Len(calls) <= 1
        /\ stats = ZeroStats /\ product_map = <<>> /\ vinv_map = <<>>
        /\ pc \in {"connect", "preflight", "preflight_ret", "exit1"}

\* The probe failed after three transport failures and the process exited.
C11_Witness ==
    /\ ~opts.dry_run
    /\ pc = "exit1"
    /\ Len(calls) = 1
    /\ ~ProbeSucceeded
    /\ req = IdleReq

\* C12: when a run is interrupted during a stage the operator is told so, and
\* the statistics and the mappings accumulated so far are still reported: the
\* statistics table was shown and the mapping file written with the current
\* values.
C12_InterruptReported ==
    pc = "exit130" =>
        /\ report.shown
        /\ report.stats = stats
        /\ report.product_map = product_map
        /\ report.vinv_map = vinv_map

StockOps ==
    {"create_virtual_inventory", "import_virtual_stock", "create_virtual_stock_item",
     "reserve_stock_item", "bind_virtual_inventory"}

\* C13: with an empty product_map the stock-item stage and the coupon stage
\* are no-ops: neither has invoked a client operation, changed a counter or
\* written a map entry or a payload.
C13_EmptyMapNoOp ==
    product_map = <<>> =>
        /\ \A c \in 1..Len(calls) : calls[c].op \notin StockOps \cup {"create_promo_code"}
        /\ vinv_map = <<>>
        /\ stats.vinv_created = 0 /\ stats.carmis_imported = 0
        /\ stats.bindings_created = 0
        /\ stats.coupons_created = 0 /\ stats.coupons_failed = 0

\* Stage a client operation belongs to: 1 products, 2 stock items, 3 coupons.
StageOfOp(op) ==
    CASE op = "create_product" -> 1
      [] op \in StockOps -> 2
      [] op = "create_promo_code" -> 3
      [] OTHER -> 0

\* Stage a position of the process belongs to.
StageOfPc(p) ==
    CASE p \in {"connect", "preflight", "preflight_ret", "run", "step1"} -> 0
      [] p \in {"product", "product_ret"} -> 1
      [] p \in {"step2", "carmis", "vinv_ret", "batch", "batch_ret", "loop", "loop_ret",
                "reserve_ret", "bind", "bind_ret"} -> 2
      [] p \in {"step3", "coupon", "coupon_ret"} -> 3
      [] OTHER -> 4

\* Position of key k in the sequence ks (0 when absent).
PosIn(ks, k) == IF \E j \in 1..Len(ks) : ks[j] = k
                THEN CHOOSE j \in 1..Len(ks) : ks[j] = k ELSE 0

GoodsIds == [j \in 1..Len(db.goods.rows) |-> db.goods.rows[j].id]

CouponIds == [j \in 1..Len(db.coupons.rows) |-> db.coupons.rows[j].id]

MapKeys(d) == [j \in 1..Len(d) |-> d[j][1]]

\* C14, the calls: product calls come before stock calls, which come before
\* coupon calls; products and coupons are sent in source-query order, stock
\* units in the order their products were mapped and one unit at a time; the
\* maps are filled in the same orders.
C14_CallOrder ==
    /\ \A a, b \in 1..Len(calls) :
          a < b =>
            /\ StageOfOp(calls[a].op) <= StageOfOp(calls[b].op)
            /\ (calls[a].op = "create_product" /\ calls[b].op = "create_product")
                  => PosIn(GoodsIds, calls[a].key) < PosIn(GoodsIds, calls[b].key)
            /\ (calls[a].op \in StockOps /\ calls[b].op \in StockOps)
                  => PosIn(MapKeys(product_map), calls[a].key)
                        <= PosIn(MapKeys(product_map), calls[b].key)
            /\ (calls[a].op = "create_promo_code" /\ calls[b].op = "create_promo_code")
                  => PosIn(CouponIds, calls[a].key) < PosIn(CouponIds, calls[b].key)
    /\ \A a, b \in 1..Len(product_map) :
          a < b => PosIn(GoodsIds, product_map[a][1]) < PosIn(GoodsIds, product_map[b][1])
    /\ \A a, b \in 1..Len(vinv_map) :
          a < b => PosIn(MapKeys(product_map), vinv_map[a][1])
                      < PosIn(MapKeys(product_map), vinv_map[b][1])

\* C14, the toggles: a disabled stage has invoked nothing and changed nothing.
C14_Disabled ==
    /\ ~opts.migrate_products =>
          /\ \A c \in 1..Len(calls) : calls[c].op # "create_product"
          /\ product_map = <<>>
          /\ stats.products_created = 0 /\ stats.products_failed = 0
    /\ ~opts.migrate_carmis =>
          /\ \A c \in 1..Len(calls) : calls[c].op \notin StockOps
          /\ vinv_map = <<>>
          /\ stats.vinv_created = 0 /\ stats.carmis_imported = 0
          /\ stats.bindings_created = 0
    /\ ~opts.migrate_coupons =>
          /\ \A c \in 1..Len(calls) : calls[c].op # "create_promo_code"
          /\ payload = NoPayload
          /\ stats.coupons_created = 0 /\ stats.coupons_failed = 0

\* C14, the updates: the process never goes back to an earlier stage, and the
\* maps and counters of a stage change only while the process is in it.
C14_Updates ==
    /\ StageOfPc(pc) <= StageOfPc(pc')
    /\ (product_map' # product_map \/ stats'.products_created # stats.products_created
          \/ stats'.products_failed # stats.products_failed) => StageOfPc(pc) = 1
    /\ (vinv_map' # vinv_map \/ stats'.vinv_created # stats.vinv_created
          \/ stats'.carmis_imported # stats.carmis_imported
          \/ stats'.bindings_created # stats.bindings_created) => StageOfPc(pc) = 2
    /\ (stats'.coupons_created # stats.coupons_created
          \/ stats'.coupons_failed # stats.coupons_failed
          \/ payload' # payload) => StageOfPc(pc) = 3
    /\ Len(calls') > Len(calls) =>
          StageOfOp(calls'[Len(calls')].op) = StageOfPc(pc)

\* C14: the stages run strictly in the order products, stock items, coupons,
\* a disabled stage does nothing, and within a stage the units are processed
\* one at a time in source-query order.
C14_StageOrdering == [](C14_CallOrder /\ C14_Disabled) /\ [][C14_Updates]_vars

\* A finished commit run that created two products, an inventory for each of
\* them and a coupon.
C14_Witness ==
    /\ pc = "exit0"
    /\ ~opts.dry_run
    /\ Len(product_map) = 2
    /\ Len(vinv_map) = 2
    /\ \E c \in 1..Len(calls) : calls[c].op = "create_promo_code"

\* The dict m2 is m with entries added at its end: no entry of m was
\* overwritten or removed.
MapExtends(m, m2) ==
    /\ Len(m2) >= Len(m)
    /\ \A j \in 1..Len(m) : m2[j] = m[j]

\* C15, the maps in every state: no key occurs twice, every entry was written
\* by one counted assignment, and in commit mode a key is present only if its
\* create call returned an identifier, which is the value stored.
C15_WrittenOnce ==
    /\ \A a, b \in 1..Len(product_map) : a < b => product_map[a][1] # product_map[b][1]
    /\ \A a, b \in 1..Len(vinv_map) : a < b => vinv_map[a][1] # vinv_map[b][1]
    /\ Len(product_map) = stats.products_created
    /\ Len(vinv_map) = stats.vinv_created
    /\ ~opts.dry_run =>
          /\ \A j \in 1..Len(product_map) :
                /\ ReturnedIdentifier("create_product", product_map[j][1])
                /\ product_map[j][2] = 10 + product_map[j][1]
          /\ \A j \in 1..Len(vinv_map) :
                /\ ReturnedIdentifier("create_virtual_inventory", vinv_map[j][1])
                /\ vinv_map[j][2] = 20 + vinv_map[j][1]

\* C15, the steps: entries are only ever added, and the return of a failed
\* create-product or create-inventory call adds none.
C15_NeverOverwritten ==
    /\ MapExtends(product_map, product_map')
    /\ MapExtends(vinv_map, vinv_map')
    /\ (pc = "product_ret" /\ (req.status = "raised" \/ ExtractId(req.body) = NoId))
          => product_map' = product_map
    /\ (pc = "vinv_ret" /\ (req.status = "raised" \/ ExtractId(req.body) = NoId))
          => vinv_map' = vinv_map

\* C15: within one run each key of product_map and vinv_map is assigned once
\* and never overwritten or removed, and a failed create leaves no entry.
C15_MappingOnce == []C15_WrittenOnce /\ [][C15_NeverOverwritten]_vars

\* A finished commit run: one product mapped, one failed, and the inventory
\* of the mapped product was answered without an identifier.
C15_Witness ==
    /\ pc = "exit0"
    /\ ~opts.dry_run
    /\ Len(product_map) = 1
    /\ stats.products_failed = 1
    /\ vinv_map = <<>>
    /\ \E t \in target : t.op = "create_virtual_inventory" /\ ~t.ident

\* Source products whose unsold rows were read and are not empty.
ProductsWithUnsold ==
    {g \in DOMAIN db.carmis : db.carmis[g].read /\ Len(db.carmis[g].rows) >= 1}

\* C16: an inventory is created, or a vinv_map entry written, only for a
\* product that has at least one unsold stock item; vinv_created counts no
\* other product.
C16_InventoryOnlyWithStock ==
    /\ \A c \in 1..Len(calls) :
          calls[c].op = "create_virtual_inventory" => calls[c].key \in ProductsWithUnsold
    /\ \A j \in 1..Len(vinv_map) : vinv_map[j][1] \in ProductsWithUnsold
    /\ stats.vinv_created <= Cardinality(ProductsWithUnsold)

\* A finished run with two mapped products: one has an unsold item and got an
\* inventory, the other has none and got nothing.
C16_Witness ==
    /\ pc = "exit0"
    /\ Len(product_map) = 2
    /\ \A g \in DOMAIN db.carmis : db.carmis[g].read
    /\ Cardinality(ProductsWithUnsold) = 1
    /\ Len(vinv_map) = 1
    /\ stats.vinv_created = 1

\* The failure statistics of engine.stats.
FailureCounters == {"products_failed", "coupons_failed"}

\* One step of the handling of a client call that raised: it is counted in
\* products_failed (a product), in coupons_failed (a coupon), or in some
\* failure statistic (a step of a product's stock migration).
C17_Counted ==
    /\ (pc = "product_ret" /\ req.status = "raised")
          => stats'.products_failed = stats.products_failed + 1
    /\ (pc = "coupon_ret" /\ req.status = "raised")
          => stats'.coupons_failed = stats.coupons_failed + 1
    /\ (pc \in {"vinv_ret", "batch_ret", "loop_ret", "reserve_ret", "bind_ret"}
        /\ req.status = "raised")
          => \E f \in FailureCounters : stats'[f] = stats[f] + 1

\* C17: every unit whose processing raises is counted in the failure
\* statistic of its kind: a product, a coupon, and a product's stock migration
\* (inventory creation, batch, reusable item, bind).
C17_FailuresCounted == [][C17_Counted]_vars

\* The c-th call was answered 2xx and its caller has dealt with the answer.
Succeeded(c) ==
    /\ \E t \in target :
          t.op = calls[c].op /\ t.key = calls[c].key /\ t.items = calls[c].items
    /\ c < Len(calls) \/ req.status = "idle"

\* C18, the calls: a create-single-item call that succeeded is directly
\* followed by the reserve call for the item it created, in the same inventory.
C18_ReservedNext ==
    \A c \in 1..Len(calls) :
        (calls[c].op = "create_virtual_stock_item" /\ Succeeded(c)) =>
            /\ c < Len(calls)
            /\ calls[c + 1].op = "reserve_stock_item"
            /\ calls[c + 1].key = calls[c].key
            /\ calls[c + 1].arg = calls[c].arg
            /\ calls[c + 1].items = <<100 + calls[c].items[1]>>

\* C18, the steps: a create or reserve call that raised is followed by the
\* next reusable item, or after the last one by the bind step.
C18_Isolated ==
    (pc \in {"loop_ret", "reserve_ret"} /\ req.status = "raised") =>
        pc' = (IF local.li < Len(local.loop_items) THEN "loop" ELSE "bind")

\* C18: in commit mode every reusable item created successfully is reserved
\* by the very next client call, and a failure of the create or of the reserve
\* call of one item stops neither the remaining items nor the bind step.
C18_ReuseReserved == []C18_ReservedNext /\ [][C18_Isolated]_vars

\* C19: in a dry run the bind step invokes nothing but is counted: once the
\* stock-item stage is over (no reader call having failed), bindings_created
\* is the number of mapped products that have at least one unsold item.
C19_DryRunBindCounted ==
    (/\ opts.dry_run /\ opts.migrate_carmis /\ faults = 0
     /\ pc \in {"step3", "coupon", "coupon_ret", "summary", "exit0"}) =>
        /\ \A c \in 1..Len(calls) : calls[c].op # "bind_virtual_inventory"
        /\ stats.bindings_created =
              Cardinality({g \in ProductsWithUnsold : DictHas(product_map, g)})

\* Indices of the calls of operation op for product g invoked before call c.
CallsBefore(c, op, g) == {a \in 1..(c - 1) : calls[a].op = op /\ calls[a].key = g}

\* C20: in commit mode every stock call of a product (bulk import, single
\* item, reserve, bind) carries the inventory identifier returned by an
\* earlier successful create-inventory call for that product; the bind call
\* is invoked at most once per product, after all its batches and all its
\* reusable items were attempted and before nothing else of that product, and
\* with the real identifier the product is mapped to.
C20_StockLifecycle ==
    \A c \in 1..Len(calls) :
        LET g == calls[c].key
            rows == db.carmis[g].rows
            n == Len(NormalItems(rows))
            b == opts.batch_size
        IN  /\ calls[c].op \in StockOps \ {"create_virtual_inventory"} =>
                  /\ CallsBefore(c, "create_virtual_inventory", g) # {}
                  /\ ReturnedIdentifier("create_virtual_inventory", g)
                  /\ calls[c].arg = 20 + g
                  /\ DictHas(vinv_map, g) /\ DictGet(vinv_map, g) = calls[c].arg
                  /\ CallsBefore(c, "bind_virtual_inventory", g) = {}
            /\ calls[c].op = "bind_virtual_inventory" =>
                  /\ Cardinality(CallsBefore(c, "import_virtual_stock", g))
                        = (n + b - 1) \div b
                  /\ Cardinality(CallsBefore(c, "create_virtual_stock_item", g))
                        = Len(LoopItems(rows))
                  /\ calls[c].items = <<DictGet(product_map, g)>>
                  /\ calls[c].items[1] > 0

\* A finished commit run in which a product's inventory was created, a batch
\* imported, a reusable item created and reserved, and the inventory bound.
C20_Witness ==
    /\ pc = "exit0"
    /\ stats.bindings_created = 1
    /\ \E c \in 1..Len(calls) : calls[c].op = "import_virtual_stock"
    /\ \E c \in 1..Len(calls) : calls[c].op = "reserve_stock_item"
    /\ calls[Len(calls)].op = "bind_virtual_inventory"

\* C21: the stock-item stage does nothing for a product without product_map
\* entry: every unit of the stage and every stock call is for a mapped
\* product (in commit mode one whose create-product call returned an
\* identifier), and the keys of vinv_map are keys of product_map.
C21_UnmappedSkipped ==
    /\ DictKeys(vinv_map) \subseteq DictKeys(product_map)
    /\ \A j \in 1..Len(goods_with_carmis) : DictHas(product_map, goods_with_carmis[j][1])
    /\ \A c \in 1..Len(calls) :
          calls[c].op \in StockOps =>
              /\ DictHas(product_map, calls[c].key)
              /\ ReturnedIdentifier("create_product", calls[c].key)

\* A finished commit run: the first product failed and got nothing, the
\* second was mapped and its inventory created.
C21_Witness ==
    /\ pc = "exit0"
    /\ ~opts.dry_run
    /\ stats.products_failed = 1
    /\ MapKeys(product_map) = <<2>>
    /\ MapKeys(vinv_map) = <<2>>
    /\ \A c \in 1..Len(calls) : calls[c].op \in StockOps => calls[c].key = 2

TransportFailures == {"conn_error", "http_error"}

\* C22: every client request ends within retry_count HTTP attempts, whatever
\* the server answers: it returns a body or raises the terminal error; it
\* sleeps at most retry_count - 1 times after transport failures and never
\* after the failure of the last attempt.
C22_RequestTerminates ==
    /\ req.attempt <= RetryCount
    /\ req.failures <= RetryCount
    /\ req.waits <= RetryCount - 1
    /\ Done(req) => (req.status = "returned" \/ req.exc = "RuntimeError")
    /\ (req.status = "raised" /\ req.last_resp \in TransportFailures)
          => req.waits = req.failures - 1

\* Number of source coupons migrate_coupons has finished with.
CouponsDone ==
    IF ~db.coupons.read THEN 0
    ELSE IF pc \in {"coupon", "coupon_ret"} THEN idx - 1 ELSE Len(db.coupons.rows)

StatNames == DOMAIN ZeroStats

\* C23, the sums: the products finished so far are each counted once, in
\* products_created or in products_failed, and products_created is the number
\* of product_map entries; likewise the coupons finished so far in
\* coupons_created or coupons_failed.  Once a stage is over the numbers
\* finished are the numbers of rows read.
C23_Sums ==
    /\ stats.products_created + stats.products_failed = ProductsDone
    /\ stats.products_created = Len(product_map)
    /\ stats.coupons_created + stats.coupons_failed = CouponsDone
    /\ (db.goods.read /\ StageOfPc(pc) >= 2) => ProductsDone = Len(db.goods.rows)
    /\ (db.coupons.read /\ StageOfPc(pc) >= 4) => CouponsDone = Len(db.coupons.rows)

\* C23, the steps: no counter is decremented, and a step counts at most one
\* product and at most one coupon.
C23_Monotone ==
    /\ \A k \in StatNames : stats'[k] >= stats[k]
    /\ (stats'.products_created + stats'.products_failed)
          - (stats.products_created + stats.products_failed) \in {0, 1}
    /\ (stats'.coupons_created + stats'.coupons_failed)
          - (stats.coupons_created + stats.coupons_failed) \in {0, 1}

\* C23: counter conservation in either mode: every product and every coupon
\* processed increments exactly one of its two counters, products_created
\* equals the number of product_map entries, and no counter is decremented.
C23_CounterConservation == []C23_Sums /\ [][C23_Monotone]_vars

\* A finished run over two products and one coupon: one product created, one
\* failed, the coupon failed.
C23_Witness ==
    /\ pc = "exit0"
    /\ Len(db.goods.rows) = 2 /\ Len(db.coupons.rows) = 1
    /\ stats.products_created = 1 /\ stats.products_failed = 1
    /\ stats.coupons_failed = 1

\* Total number of items of a set of answered calls.
RECURSIVE ItemsIn(_)
ItemsIn(T) ==
    IF T = {} THEN 0
    ELSE LET t == CHOOSE x \in T : TRUE
         IN  Len(t.items) + ItemsIn(T \ {t})

\* Stock items the target accepted: the items of the bulk imports and of the
\* single-item creations it answered 2xx.
Accepted ==
    {t \in target : t.op \in {"import_virtual_stock", "create_virtual_stock_item"}}

\* C24: in commit mode, once the stock-item stage is over, carmis_imported is
\* the number of stock items the target accepted: the sizes of the bulk
\* imports that succeeded plus the reusable items whose creation succeeded.
C24_ImportedIsAccepted ==
    (~opts.dry_run /\ StageOfPc(pc) >= 3) => stats.carmis_imported = ItemsIn(Accepted)

====
